---- MODULE Spec2Model ----
(***************************************************************************)
(* Lyra blocklist builder: domain normalization, validation, merge and the *)
(* load / fetch / merge / save cycle of BaseCategory.build_blocklist.      *)
(*                                                                         *)
(* Python strings are modelled as sequences of one-character strings, so   *)
(* that lower(), strip(), split(), the domain regex and the codepoint      *)
(* order used by sorted() are computed rather than assumed.                *)
(***************************************************************************)
EXTENDS Integers, Sequences, FiniteSets, TLC

(***************************************************************************)
(* Characters and codepoints                                               *)
(***************************************************************************)

\* Printable ASCII 32..95 in codepoint order.
AsciiLow ==
   <<
      " ", "!", "\"", "#", "$", "%", "&", "'", "(", ")", "*", "+", ",", "-", ".", "/", "0",
      "1", "2", "3", "4", "5", "6", "7", "8", "9", ":", ";", "<", "=", ">", "?", "@", "A",
      "B", "C", "D", "E", "F", "G", "H", "I", "J", "K", "L", "M", "N", "O", "P", "Q", "R",
      "S", "T", "U", "V", "W", "X", "Y", "Z", "[", "\\", "]", "^", "_"
   >>

\* Printable ASCII 97..126 in codepoint order.
AsciiHigh ==
   <<
      "a", "b", "c", "d", "e", "f", "g", "h", "i", "j", "k", "l", "m", "n", "o", "p", "q",
      "r", "s", "t", "u", "v", "w", "x", "y", "z", "{", "|", "}", "~"
   >>

Range(s) == {s[i] : i \in 1..Len(s)}

\* Every character a modelled string can hold.
Chars == Range(AsciiLow) \cup Range(AsciiHigh) \cup {"\t", "\n", "\r"}

\* Codepoint table, computed once.
OrdMap ==
   [c \in Chars |->
      CASE c = "\t" -> 9
        [] c = "\n" -> 10
        [] c = "\r" -> 13
        [] c \in Range(AsciiLow) -> 31 + (CHOOSE i \in 1..Len(AsciiLow) : AsciiLow[i] = c)
        [] OTHER -> 96 + (CHOOSE i \in 1..Len(AsciiHigh) : AsciiHigh[i] = c)]

\* ord(): codepoint of a character.
Ord(c) == OrdMap[c]

\* chr() on the printable range.
Chr(n) == IF n < 96 THEN AsciiLow[n - 31] ELSE AsciiHigh[n - 96]

IsUpper(c) == Ord(c) >= 65 /\ Ord(c) <= 90
IsLower(c) == Ord(c) >= 97 /\ Ord(c) <= 122
IsAlpha(c) == IsUpper(c) \/ IsLower(c)
IsDigit(c) == Ord(c) >= 48 /\ Ord(c) <= 57

\* str.isspace() characters that can occur in a fetched line.
Whitespace == {" ", "\t", "\n", "\r"}

(***************************************************************************)
(* Python str operations used by the processor                             *)
(***************************************************************************)

MinOf(S) == CHOOSE m \in S : \A n \in S : m <= n
MaxOf(S) == CHOOSE m \in S : \A n \in S : m >= n

\* s[i:] with a 1-based first index.
From(s, i) == SubSeq(s, i, Len(s))

\* str.lower()
Lower(s) == [i \in 1..Len(s) |-> IF IsUpper(s[i]) THEN Chr(Ord(s[i]) + 32) ELSE s[i]]

\* str.lstrip(chars): drop leading characters that are members of chars.
LStrip(s, chars) ==
   LET keep == {i \in 1..Len(s) : s[i] \notin chars}
   IN  IF keep = {} THEN <<>> ELSE From(s, MinOf(keep))

\* str.rstrip(chars)
RStrip(s, chars) ==
   LET keep == {i \in 1..Len(s) : s[i] \notin chars}
   IN  IF keep = {} THEN <<>> ELSE SubSeq(s, 1, MaxOf(keep))

\* str.strip(chars); strip() with no argument is StripChars(s, Whitespace).
StripChars(s, chars) == RStrip(LStrip(s, chars), chars)

\* str.startswith(prefix)
StartsWith(s, p) == Len(s) >= Len(p) /\ SubSeq(s, 1, Len(p)) = p

\* str.endswith(suffix)
EndsWith(s, p) == Len(s) >= Len(p) /\ SubSeq(s, Len(s) - Len(p) + 1, Len(s)) = p

\* the `in` operator on strings: sub is a substring of s
Contains(s, sub) == \E i \in 1..(Len(s) - Len(sub) + 1) : SubSeq(s, i, i + Len(sub) - 1) = sub

\* str.count(c) for a single character
Count(s, c) == Cardinality({i \in 1..Len(s) : s[i] = c})

\* 1-based index of the first character of s that is in chars, 0 if none
FindAny(s, chars) ==
   LET hits == {i \in 1..Len(s) : s[i] \in chars}
   IN  IF hits = {} THEN 0 ELSE MinOf(hits)

\* The part of s before the first character that is in chars, s if none
SplitUntil(s, chars) ==
   LET k == FindAny(s, chars) IN IF k = 0 THEN s ELSE SubSeq(s, 1, k - 1)

\* str.split(c)[0]
SplitHead(s, c) == SplitUntil(s, {c})

RECURSIVE Split(_, _)
\* str.split(c) for a single-character separator: a list of fields
Split(s, c) ==
   LET k == FindAny(s, {c})
   IN  IF k = 0 THEN <<s>> ELSE <<SubSeq(s, 1, k - 1)>> \o Split(From(s, k + 1), c)

RECURSIVE SplitWs(_)
\* str.split() with no argument: fields separated by runs of whitespace
SplitWs(s) ==
   LET t == LStrip(s, Whitespace)
       k == FindAny(t, Whitespace)
   IN  IF t = <<>> THEN <<>>
       ELSE IF k = 0 THEN <<t>>
       ELSE <<SubSeq(t, 1, k - 1)>> \o SplitWs(From(t, k + 1))

\* The scheme test of urlsplit: a letter, then letters, digits, +, - or .
\* up to the first colon at 1-based index colon.
HasScheme(url, colon) ==
   /\ colon > 1
   /\ IsAlpha(url[1])
   /\ \A i \in 1..(colon - 1) :
         IsAlpha(url[i]) \/ IsDigit(url[i]) \/ url[i] \in {"+", "-", "."}

\* The url with its scheme and colon removed.
AfterScheme(url) ==
   IF HasScheme(url, FindAny(url, {":"})) THEN From(url, FindAny(url, {":"}) + 1) ELSE url

\* The authority of //authority/path?query#fragment, "" without the slashes.
Authority(rest) ==
   IF StartsWith(rest, <<"/", "/">>) THEN SplitUntil(From(rest, 3), {"/", "?", "#"}) ELSE <<>>

\* The text between the first [ and the ] after it.
Bracketed(netloc) == SplitHead(From(netloc, FindAny(netloc, {"["}) + 1), "]")

\* An IPv6-looking literal: hex digits, colons and dots, with a colon.
Ipv6Like(inner) ==
   /\ ":" \in Range(inner)
   /\ \A i \in 1..Len(inner) :
         IsDigit(inner[i]) \/ inner[i] \in {"a", "b", "c", "d", "e", "f", ":", "."}

\* urlparse accepts the authority: no brackets, or brackets around an IPv6
\* literal.  Otherwise it raises ValueError.
NetlocAccepted(netloc) ==
   IF "[" \in Range(netloc) /\ "]" \in Range(netloc)
   THEN Ipv6Like(Bracketed(netloc))
   ELSE "[" \notin Range(netloc) /\ "]" \notin Range(netloc)

\* The result of urlparse for a given authority.
ParseResult(netloc) == [ok |-> NetlocAccepted(netloc), netloc |-> netloc]

\* urllib.parse.urlparse(url).netloc for a lowercased url; ok = FALSE when
\* urlparse raises ValueError.
UrlNetloc(url) == ParseResult(Authority(AfterScheme(url)))

(***************************************************************************)
(* DomainProcessor (core/processor.py)                                     *)
(***************************************************************************)

\* Longest label the domain regex admits: the {1,63} quantifier.
MaxLabelLen == 63

\* Shortest top-level label the domain regex admits: the {2,} quantifier.
MinTldLen == 2

\* The character class [A-Za-z0-9-] of the domain regex.
LabelChar(c) == IsAlpha(c) \/ IsDigit(c) \/ c = "-"

\* The leading markers of a comment line.
CommentMarkers == {"#", "!", ";"}

\* The address tokens that introduce a hosts-file line.
HostsPrefixes == {<<"0", ".", "0", ".", "0", ".", "0">>, <<"1", "2", "7", ".", "0", ".", "0", ".", "1">>, <<":", ":", "1">>, <<"l", "o", "c", "a", "l", "h", "o", "s", "t">>}

\* The protocol prefixes removed by URL parsing.
ProtocolPrefixes == {<<"h", "t", "t", "p", ":", "/", "/">>, <<"h", "t", "t", "p", "s", ":", "/", "/">>, <<"f", "t", "p", ":", "/", "/">>}

\* The characters of the final strip() call.
CleanupChars ==
   {".", ",", ";", ":", "!", "@", "#", "$", "%", "^", "&", "*", "(", ")", "[", "]",
    "{", "}", "\"", "'", " ", "\t", "\n", "\r"}

\* The URL column of a CSV row: host of an http URL, the field itself
\* otherwise.  rejected = TRUE is the `return ""` taken when urlparse raises.
CsvField(url) ==
   IF StartsWith(url, <<"h", "t", "t", "p">>)
   THEN IF UrlNetloc(url).ok
        THEN [rejected |-> FALSE, domain |-> UrlNetloc(url).netloc]
        ELSE [rejected |-> TRUE, domain |-> <<>>]
   ELSE [rejected |-> FALSE, domain |-> url]

\* The CSV step of normalize_domain for a lowercased, trimmed line.  A line
\* holding a comma always splits into more than one part.
CsvExtract(d, source_name) ==
   IF source_name # <<>> /\ Contains(source_name, <<"p", "h", "i", "s", "h", "t", "a", "n", "k">>) /\ "," \in Range(d)
   THEN CsvField(StripChars(Split(d, ",")[2], {"\""}))
   ELSE [rejected |-> FALSE, domain |-> d]

\* The AdGuard filter step: ||domain^ and ||domain.
StripAdGuard(d) ==
   IF StartsWith(d, <<"|", "|">>) /\ EndsWith(d, <<"^">>)
   THEN SubSeq(d, 3, Len(d) - 1)
   ELSE IF StartsWith(d, <<"|", "|">>) THEN From(d, 3) ELSE d

\* parts[1] if len(parts) > 1 else "" for parts = domain.split()
SecondToken(parts) == IF Len(parts) > 1 THEN parts[2] ELSE <<>>

\* The hosts-file step.
StripHostsPrefix(d) ==
   IF \E h \in HostsPrefixes : StartsWith(d, h) THEN SecondToken(SplitWs(d)) ELSE d

\* The adblock marker step: lstrip("|").rstrip("^"), then lstrip("*.").lstrip(".")
StripMarkers(d) == LStrip(LStrip(RStrip(LStrip(d, {"|"}), {"^"}), {"*", "."}), {"."})

\* parsed.netloc inside try/except: the string is kept when urlparse raises.
NetlocOrSelf(parsed, d) == IF parsed.ok THEN parsed.netloc ELSE d

\* The protocol step.  An ftp:// string is handed to urlparse with http://
\* put in front of it.
StripProtocol(d) ==
   IF \E pfx \in ProtocolPrefixes : StartsWith(d, pfx)
   THEN IF StartsWith(d, <<"h", "t", "t", "p", ":", "/", "/">>) \/ StartsWith(d, <<"h", "t", "t", "p", "s", ":", "/", "/">>)
        THEN NetlocOrSelf(UrlNetloc(d), d)
        ELSE NetlocOrSelf(UrlNetloc(<<"h", "t", "t", "p", ":", "/", "/">> \o d), d)
   ELSE d

\* The port step: applied only when the string holds exactly one colon.
StripPort(d) == IF ":" \in Range(d) /\ ~(Count(d, ":") > 1) THEN SplitHead(d, ":") ELSE d

\* The path and query step.
StripPathQuery(d) == SplitHead(SplitHead(d, "/"), "?")

\* The final strip() of stray punctuation and whitespace.
Cleanup(d) == StripChars(d, CleanupChars)

\* Steps after the CSV step, in the order of the code.
NormalizeTail(d) ==
   Cleanup(StripPathQuery(StripPort(StripProtocol(StripMarkers(
      StripHostsPrefix(StripAdGuard(d)))))))

\* The comment test and the CSV step on the lowercased, trimmed line d.
NormalizeLowered(d, source_name) ==
   IF d = <<>> \/ d[1] \in CommentMarkers THEN <<>>
   ELSE IF CsvExtract(d, source_name).rejected THEN <<>>
   ELSE NormalizeTail(CsvExtract(d, source_name).domain)

\* isinstance(domain, str): a string is a sequence of characters; a value of
\* another type is written as a sequence holding something that is no character.
IsString(raw) == \A i \in 1..Len(raw) : raw[i] \in Chars

\* normalize_domain(domain, source_name): the normalized string, <<>> for "".
\* A source_name of <<>> stands for both None and "" (either is falsy).
normalize_domain(raw, source_name) ==
   IF raw = <<>> \/ ~IsString(raw) THEN <<>>
   ELSE NormalizeLowered(Lower(StripChars(raw, Whitespace)), source_name)

\* domain_regex.search(domain) for
\*   ^(?!-)[A-Za-z0-9-]{1,63}(?<!-)\.[A-Za-z]{2,}$
\* k is the length matched by the first label; $ also matches just before a
\* final newline.
RegexMatches(s) ==
   \E k \in 1..MaxLabelLen :
      \E end \in {Len(s)} \cup (IF s # <<>> /\ s[Len(s)] = "\n" THEN {Len(s) - 1} ELSE {}) :
         /\ k + 1 <= end
         /\ s[1] # "-"
         /\ \A i \in 1..k : LabelChar(s[i])
         /\ s[k] # "-"
         /\ s[k + 1] = "."
         /\ end - (k + 1) >= MinTldLen
         /\ \A i \in (k + 2)..end : IsAlpha(s[i])

\* is_valid_domain(domain)
is_valid_domain(domain) == RegexMatches(domain)

\* has_priority_keywords(domain, keywords)
has_priority_keywords(domain, keywords) == \E keyword \in keywords : Contains(domain, keyword)

RECURSIVE process_domains_tagExcludes(_, _, _)
\* process_domains as it would be if a domain matching a priority keyword
\* were put in the priority set instead of the normalized set.
process_domains_tagExcludes(raw_domains, priority_keywords, source_name) ==
   IF raw_domains = <<>>
   THEN [normalized |-> {}, priority |-> {}]
   ELSE LET n      == Len(raw_domains)
            prev   == process_domains_tagExcludes(SubSeq(raw_domains, 1, n - 1),
                                                  priority_keywords, source_name)
            domain == normalize_domain(raw_domains[n], source_name)
        IN  IF domain # <<>> /\ is_valid_domain(domain)
            THEN IF priority_keywords # {} /\ has_priority_keywords(domain, priority_keywords)
                 THEN [normalized |-> prev.normalized,
                       priority   |-> prev.priority \cup {domain}]
                 ELSE [normalized |-> prev.normalized \cup {domain},
                       priority   |-> prev.priority]
            ELSE prev

RECURSIVE process_domains_noValidation(_, _, _)
\* process_domains as it would be if every non-empty normalization result
\* were added without calling is_valid_domain.
process_domains_noValidation(raw_domains, priority_keywords, source_name) ==
   IF raw_domains = <<>>
   THEN [normalized |-> {}, priority |-> {}]
   ELSE LET n      == Len(raw_domains)
            prev   == process_domains_noValidation(SubSeq(raw_domains, 1, n - 1),
                                                   priority_keywords, source_name)
            domain == normalize_domain(raw_domains[n], source_name)
        IN  IF domain # <<>>
            THEN [normalized |-> prev.normalized \cup {domain},
                  priority   |-> IF priority_keywords # {}
                                    /\ has_priority_keywords(domain, priority_keywords)
                                 THEN prev.priority \cup {domain}
                                 ELSE prev.priority]
            ELSE prev

RECURSIVE process_domains_stopAtRejected(_, _, _)
\* process_domains as it would be if the first rejected line ended the loop.
process_domains_stopAtRejected(raw_domains, priority_keywords, source_name) ==
   IF raw_domains = <<>>
   THEN [normalized |-> {}, priority |-> {}]
   ELSE LET rest   == process_domains_stopAtRejected(Tail(raw_domains),
                                                     priority_keywords, source_name)
            domain == normalize_domain(Head(raw_domains), source_name)
        IN  IF domain # <<>> /\ is_valid_domain(domain)
            THEN [normalized |-> rest.normalized \cup {domain},
                  priority   |-> IF priority_keywords # {}
                                    /\ has_priority_keywords(domain, priority_keywords)
                                 THEN rest.priority \cup {domain}
                                 ELSE rest.priority]
            ELSE [normalized |-> {}, priority |-> {}]

RECURSIVE process_domains(_, _, _)
\* process_domains(raw_domains, priority_keywords, source_name): the loop over
\* the raw lines, last line first in the recursion; the two result sets do not
\* depend on the order of insertion.  priority_keywords = {} stands for both
\* None and the empty list.
process_domains(raw_domains, priority_keywords, source_name) ==
   IF raw_domains = <<>>
   THEN [normalized |-> {}, priority |-> {}]
   ELSE LET n      == Len(raw_domains)
            prev   == process_domains(SubSeq(raw_domains, 1, n - 1),
                                      priority_keywords, source_name)
            domain == normalize_domain(raw_domains[n], source_name)
        IN  IF domain # <<>> /\ is_valid_domain(domain)
            THEN [normalized |-> prev.normalized \cup {domain},
                  priority   |-> IF priority_keywords # {}
                                    /\ has_priority_keywords(domain, priority_keywords)
                                 THEN prev.priority \cup {domain}
                                 ELSE prev.priority]
            ELSE prev

\* Python's str comparison a < b: codepoint order at the first difference,
\* a proper prefix sorts first.
StrLess(a, b) ==
   LET n    == IF Len(a) < Len(b) THEN Len(a) ELSE Len(b)
       diff == {i \in 1..n : a[i] # b[i]}
   IN  IF diff = {} THEN Len(a) < Len(b)
       ELSE Ord(a[MinOf(diff)]) < Ord(b[MinOf(diff)])

RECURSIVE Sorted(_)
\* sorted(list(S)) for a set of strings: ascending by StrLess
Sorted(S) ==
   IF S = {} THEN <<>>
   ELSE LET m == CHOOSE x \in S : \A y \in S \ {x} : StrLess(x, y)
        IN  <<m>> \o Sorted(S \ {m})

\* merge_domains as it would be with the union forgotten: only the new batch
\* is kept.
merge_domains_dropExisting(existing_domains, new_domains, priority_domains) ==
   [final |-> Sorted(new_domains),
    stats |-> [existing_count    |-> Cardinality(existing_domains),
               new_count         |-> Cardinality(new_domains),
               newly_added_count |-> Cardinality(new_domains \ existing_domains),
               total_count       |-> Cardinality(new_domains),
               priority_count    |-> 0]]

\* merge_domains as it would be under the older scheme: priority domains
\* first, the others after them, and the priority count reported.
merge_domains_priorityFirst(existing_domains, new_domains, priority_domains) ==
   LET all_domains == existing_domains \cup new_domains
       first       == all_domains \cap priority_domains
   IN  [final |-> Sorted(first) \o Sorted(all_domains \ first),
        stats |-> [existing_count    |-> Cardinality(existing_domains),
                   new_count         |-> Cardinality(new_domains),
                   newly_added_count |-> Cardinality(new_domains \ existing_domains),
                   total_count       |-> Cardinality(all_domains),
                   priority_count    |-> Cardinality(first)]]

\* merge_domains as it would be with newly_added_count taken from the whole
\* batch instead of the batch minus the corpus.
merge_domains_countBatch(existing_domains, new_domains, priority_domains) ==
   LET all_domains == existing_domains \cup new_domains
   IN  [final |-> Sorted(all_domains),
        stats |-> [existing_count    |-> Cardinality(existing_domains),
                   new_count         |-> Cardinality(new_domains),
                   newly_added_count |-> Cardinality(new_domains),
                   total_count       |-> Cardinality(all_domains),
                   priority_count    |-> 0]]

\* merge_domains as it would be if new domains were appended after the
\* existing ones instead of sorted into them.
merge_domains_appendNew(existing_domains, new_domains, priority_domains) ==
   LET all_domains == existing_domains \cup new_domains
       newly_added == new_domains \ existing_domains
   IN  [final |-> Sorted(existing_domains) \o Sorted(newly_added),
        stats |-> [existing_count    |-> Cardinality(existing_domains),
                   new_count         |-> Cardinality(new_domains),
                   newly_added_count |-> Cardinality(newly_added),
                   total_count       |-> Cardinality(all_domains),
                   priority_count    |-> 0]]

\* merge_domains(existing_domains, new_domains, priority_domains)
merge_domains(existing_domains, new_domains, priority_domains) ==
   LET all_domains == existing_domains \cup new_domains
       newly_added == new_domains \ existing_domains
   IN  [final |-> Sorted(all_domains),
        stats |-> [existing_count    |-> Cardinality(existing_domains),
                   new_count         |-> Cardinality(new_domains),
                   newly_added_count |-> Cardinality(newly_added),
                   total_count       |-> Cardinality(all_domains),
                   priority_count    |-> 0]]

\* load_existing_domains(filepath).  f is the corpus file, readable says
\* whether open()/iteration succeeds.  Every non-blank line, stripped, is an
\* entry of the returned set.
\* load_existing_domains as it would be if a read error returned the lines
\* read before the error instead of the empty set.
load_existing_domains_partial(f, readable) ==
   IF ~f.exists THEN {}
   ELSE {StripChars(f.lines[i], Whitespace) :
            i \in {j \in 1..(IF readable THEN Len(f.lines) ELSE 1) :
                      StripChars(f.lines[j], Whitespace) # <<>>}}

load_existing_domains(f, readable) ==
   IF ~f.exists THEN {}
   ELSE IF readable
        THEN {StripChars(f.lines[i], Whitespace) :
                 i \in {j \in 1..Len(f.lines) : StripChars(f.lines[j], Whitespace) # <<>>}}
        ELSE {}

(***************************************************************************)
(* BaseCategory (categories/base.py) and AdultCategory                     *)
(***************************************************************************)

\* BaseCategory.name for the adult category.
CategoryName == <<"A", "d", "u", "l", "t">>

\* The lines _save_domains writes before the domains, the blank line included.
HeaderLines ==
   << <<"/", "*", "*">>,
      <<"L", "y", "r", "a", " ", "-", " ", "M", "a", "p", "p", "i", "n", "g",
      " ", "t", "h", "e", " ", "u", "n", "i", "v", "e", "r", "s", "e", " ", "o",
      "f", " ", "t", "h", "r", "e", "a", "t", "s">>,
      <<"C", "a", "t", "e", "g", "o", "r", "y", ":", " ">> \o CategoryName,
      <<"W", "e", "b", "s", "i", "t", "e", ":", " ", "h", "t", "t", "p", "s", ":", "/",
      "/", "b", "l", "o", "g", ".", "i", "n", "t", "e", "l", "l", "i", "b", "r", "o", "n",
      ".", "i", "o", "/">>,
      <<"C", "o", "p", "y", "r", "i", "g", "h", "t", " ", "2", "0", "2", "5", " ",
      "I", "T", "S", "E", "C", " ", "R", "&", "D">>,
      <<"*", "*", "/">>,
      <<>> >>

\* _save_domains(domains_list): the file content after a successful write,
\* one line per write() of the header and one per domain.
save_domains(domains_list) == [exists |-> TRUE, lines |-> HeaderLines \o domains_list]

\* BaseCategory.sources: the configured source names, in dictionary order,
\* with their URLs.
Sources ==
   << [name |-> <<"b", "l", "o", "c", "k", "l", "i", "s", "t">>, url |-> "https://lists.example/plain.txt"],
      [name |-> <<"p", "h", "i", "s", "h", "t", "a", "n", "k">>, url |-> "https://data.example/online-valid.csv"] >>

\* BaseCategory.priority_keywords of the category configuration.
PriorityKeywords == {<<"a">>}

\* The bodies a source can serve, as resp.text.splitlines().
Payloads(i) ==
   IF i = 1
   THEN { << <<"a", ".", "i", "o">>, <<"#", " ", "c", "o", "m", "m", "e", "n", "t">> >>,
          << <<"0", ".", "0", ".", "0", ".", "0", " ", "b", ".", "i", "o">>, <<"A", ".", "I", "O">> >> }
   ELSE { << <<"1", ",", "\"", "h", "t", "t", "p", ":", "/", "/", "c", ".", "i", "o", "/", "x", "\"", ",", "2">> >> }

\* fetch_source(name, url): one possible outcome per served body, and the
\* failure outcome taken when requests.get or raise_for_status raises.
\* The timestamp field of the statistics is not modelled.
fetch_source(i) ==
   { [success |-> TRUE, data |-> lines,
      stats |-> [url |-> Sources[i].url, total_raw |-> Len(lines), status |-> "success"]]
        : lines \in Payloads(i) }
   \cup
   { [success |-> FALSE, data |-> <<>>,
      stats |-> [url |-> Sources[i].url, total_raw |-> 0, status |-> "error"]] }

(***************************************************************************)
(* State                                                                   *)
(***************************************************************************)

\* Number of build_blocklist runs explored.
MaxRuns == 3

VARIABLES
   pc,                  \* position inside build_blocklist, or of a function call
   run,                 \* number of build_blocklist calls started
   file,                \* the corpus file at output_path
   stats_file,          \* the statistics file at stats_path
   load_status,         \* which branch load_existing_domains took
   existing_domains,    \* local of build_blocklist and argument of merge_domains
   raw_domains,         \* local of build_blocklist and argument of process_domains
   source_stats,        \* local of build_blocklist: per-source statistics
   idx,                 \* loop index over Sources
   normalized_domains,  \* local of build_blocklist and result of process_domains
   priority_domains,    \* local of build_blocklist and result of process_domains
   final_domains_list,  \* local of build_blocklist and result of merge_domains
   merge_stats,         \* local of build_blocklist and result of merge_domains
   last_saved,          \* the list most recently written by _save_domains
   raw_line,            \* argument of normalize_domain
   source_name,         \* argument of normalize_domain
   domain,              \* result of normalize_domain, argument of is_valid_domain
   valid,               \* result of the acceptance test of process_domains
   keywords,            \* argument priority_keywords of process_domains
   file_ops,            \* accesses to the corpus file made by the current build_blocklist call
   arg_category,        \* args.category of main
   all_stats,           \* all_stats of main and process_all_categories
   exit_code,           \* exit status of main, "running" until it ends
   outcomes             \* the calls of process_category so far: category, whether stats came back

vars ==
   << pc, run, file, stats_file, load_status, existing_domains, raw_domains,
      source_stats, idx, normalized_domains, priority_domains, final_domains_list,
      merge_stats, last_saved, raw_line, source_name, domain, valid, keywords,
      file_ops, arg_category, all_stats, exit_code, outcomes >>

\* The variables of a build_blocklist call that are locals of the call.
locals ==
   << load_status, existing_domains, raw_domains, source_stats, idx,
      normalized_domains, priority_domains, final_domains_list, merge_stats >>

\* The variables used only when a processor function is exercised on its own.
callVars == << raw_line, source_name, domain, valid, keywords >>

\* The variables of main and process_all_categories.
mainVars == << arg_category, all_stats, exit_code, outcomes >>

NoFile == [exists |-> FALSE, lines |-> <<>>]
NoStats == [existing_count |-> 0, new_count |-> 0, newly_added_count |-> 0,
            total_count |-> 0, priority_count |-> 0]

\* Values of the locals outside a call.
LocalsCleared ==
   /\ load_status = "none"
   /\ existing_domains = {}
   /\ raw_domains = <<>>
   /\ source_stats = <<>>
   /\ idx = 0
   /\ normalized_domains = {}
   /\ priority_domains = {}
   /\ final_domains_list = <<>>
   /\ merge_stats = NoStats

CallVarsCleared ==
   /\ raw_line = <<>>
   /\ source_name = <<>>
   /\ domain = <<>>
   /\ valid = FALSE
   /\ keywords = {}

\* Values of the variables of main while main is not running.
MainVarsCleared ==
   /\ arg_category = "none"
   /\ all_stats = <<>>
   /\ exit_code = "running"
   /\ outcomes = <<>>

(***************************************************************************)
(* build_blocklist, one action per step of the call                        *)
(***************************************************************************)

Init ==
   /\ pc = "idle"
   /\ run = 0
   /\ file = NoFile
   /\ stats_file = <<>>
   /\ last_saved = <<>>
   /\ file_ops = <<>>
   /\ MainVarsCleared
   /\ LocalsCleared
   /\ CallVarsCleared

ClearLocals ==
   /\ load_status' = "none"
   /\ existing_domains' = {}
   /\ raw_domains' = <<>>
   /\ source_stats' = <<>>
   /\ idx' = 0
   /\ normalized_domains' = {}
   /\ priority_domains' = {}
   /\ final_domains_list' = <<>>
   /\ merge_stats' = NoStats

\* StartRun as it would be if the corpus file were opened for writing when
\* build_blocklist is entered.
StartRun_truncates ==
   /\ pc = "idle"
   /\ run < MaxRuns
   /\ run' = run + 1
   /\ pc' = "load"
   /\ file' = save_domains(<<>>)
   /\ file_ops' = <<"write">>
   /\ UNCHANGED << stats_file, last_saved, locals, callVars, mainVars >>

\* build_blocklist is entered and both os.makedirs calls succeed.
StartRun ==
   /\ pc = "idle"
   /\ run < MaxRuns
   /\ run' = run + 1
   /\ pc' = "load"
   /\ file_ops' = <<>>
   /\ UNCHANGED << file, stats_file, last_saved, locals, callVars,
                   mainVars >>

\* build_blocklist is entered and os.makedirs raises: the call is abandoned.
StartRunFails ==
   /\ pc = "idle"
   /\ run < MaxRuns
   /\ run' = run + 1
   /\ pc' = "idle"
   /\ file_ops' = <<>>
   /\ UNCHANGED << file, stats_file, last_saved, locals, callVars,
                   mainVars >>

\* existing_domains = self.load_existing_domains()
LoadExisting ==
   /\ pc = "load"
   /\ \E readable \in (IF file.exists THEN BOOLEAN ELSE {TRUE}) :
         /\ existing_domains' = load_existing_domains(file, readable)
         /\ load_status' = IF ~file.exists THEN "not_found"
                           ELSE IF readable THEN "loaded" ELSE "error"
   /\ idx' = 1
   /\ pc' = "fetch"
   /\ file_ops' = Append(file_ops, "load")
   /\ UNCHANGED << run, file, stats_file, last_saved, raw_domains, source_stats,
                   normalized_domains, priority_domains, final_domains_list,
                   merge_stats, callVars,
                   mainVars >>

\* FetchSource as it would be if a failed fetch ended the loop of
\* fetch_multiple_sources.
FetchSource_stopAtFailure ==
   /\ pc = "fetch"
   /\ idx <= Len(Sources)
   /\ \E r \in fetch_source(idx) :
         /\ source_stats' = Append(source_stats, r.stats)
         /\ raw_domains' = IF r.success THEN raw_domains \o r.data ELSE raw_domains
         /\ pc' = IF idx = Len(Sources) \/ ~r.success THEN "process" ELSE "fetch"
   /\ idx' = idx + 1
   /\ UNCHANGED << run, file, stats_file, last_saved, load_status, existing_domains,
                   normalized_domains, priority_domains, final_domains_list,
                   merge_stats, callVars, file_ops, mainVars >>

\* One iteration of the loop of fetch_multiple_sources.
FetchSource ==
   /\ pc = "fetch"
   /\ idx <= Len(Sources)
   /\ \E r \in fetch_source(idx) :
         /\ source_stats' = Append(source_stats, r.stats)
         /\ raw_domains' = IF r.success THEN raw_domains \o r.data ELSE raw_domains
   /\ idx' = idx + 1
   /\ pc' = IF idx = Len(Sources) THEN "process" ELSE "fetch"
   /\ UNCHANGED << run, file, stats_file, last_saved, load_status, existing_domains,
                   normalized_domains, priority_domains, final_domains_list,
                   merge_stats, callVars,
                   file_ops, mainVars >>

\* normalized_domains, priority_domains = self.process_domains(raw_domains)
ProcessDomains ==
   /\ pc = "process"
   /\ LET r == process_domains(raw_domains, PriorityKeywords, <<>>)
      IN  /\ normalized_domains' = r.normalized
          /\ priority_domains' = r.priority
   /\ idx' = 1
   /\ pc' = "source_stats"
   /\ UNCHANGED << run, file, stats_file, last_saved, load_status, existing_domains,
                   raw_domains, source_stats, final_domains_list, merge_stats,
                   callVars,
                   file_ops, mainVars >>

\* One iteration of the loop over source_stats: a successful source is
\* fetched again and its lines processed under its own name.
UpdateSourceStats ==
   /\ pc = "source_stats"
   /\ idx <= Len(Sources)
   /\ IF source_stats[idx].status = "success"
      THEN \E r \in fetch_source(idx) :
              LET p == process_domains(r.data, PriorityKeywords, Sources[idx].name)
              IN  source_stats' =
                     [source_stats EXCEPT ![idx] =
                        [url              |-> @.url,
                         total_raw        |-> @.total_raw,
                         status           |-> @.status,
                         total_normalized |-> Cardinality(p.normalized),
                         priority_count   |-> Cardinality(p.priority)]]
      ELSE UNCHANGED source_stats
   /\ idx' = idx + 1
   /\ pc' = IF idx = Len(Sources) THEN "merge" ELSE "source_stats"
   /\ UNCHANGED << run, file, stats_file, last_saved, load_status, existing_domains,
                   raw_domains, normalized_domains, priority_domains,
                   final_domains_list, merge_stats, callVars,
                   file_ops, mainVars >>

\* final_domains_list, merge_stats = self.merge_domains(...)
Merge ==
   /\ pc = "merge"
   /\ LET r == merge_domains(existing_domains, normalized_domains, priority_domains)
      IN  /\ final_domains_list' = r.final
          /\ merge_stats' = r.stats
   /\ pc' = "save"
   /\ UNCHANGED << run, file, stats_file, last_saved, load_status, existing_domains,
                   raw_domains, source_stats, idx, normalized_domains,
                   priority_domains, callVars,
                   file_ops, mainVars >>

\* self._save_domains(final_domains_list)
SaveDomains ==
   /\ pc = "save"
   /\ file' = save_domains(final_domains_list)
   /\ last_saved' = final_domains_list
   /\ file_ops' = Append(file_ops, "write")
   /\ pc' = "save_stats"
   /\ UNCHANGED << run, stats_file, locals, callVars,
                   mainVars >>

\* open() in _save_domains raises before the file is touched: the call is
\* abandoned.
SaveDomainsFails ==
   /\ pc = "save"
   /\ pc' = "idle"
   /\ ClearLocals
   /\ UNCHANGED << run, file, stats_file, last_saved, callVars,
                   file_ops, mainVars >>

\* An exception that no handler of build_blocklist catches (KeyboardInterrupt,
\* MemoryError) is raised while loading, fetching, processing or merging: the
\* call is abandoned.
Interrupt ==
   /\ pc \in {"load", "fetch", "process", "source_stats", "merge"}
   /\ pc' = "idle"
   /\ ClearLocals
   /\ UNCHANGED << run, file, stats_file, last_saved, callVars,
                   file_ops, mainVars >>

\* self._save_stats(overall_stats) and the return of build_blocklist.
SaveStats ==
   /\ pc = "save_stats"
   /\ stats_file' =
         [total_sources      |-> Len(Sources),
          successful_sources |-> Cardinality({i \in 1..Len(source_stats) :
                                                source_stats[i].status = "success"}),
          sources            |-> source_stats,
          merge              |-> merge_stats]
   /\ pc' = "idle"
   /\ ClearLocals
   /\ UNCHANGED << run, file, last_saved, callVars,
                   file_ops, mainVars >>

Next ==
   \/ StartRun
   \/ StartRunFails
   \/ LoadExisting
   \/ FetchSource
   \/ ProcessDomains
   \/ UpdateSourceStats
   \/ Merge
   \/ SaveDomains
   \/ SaveDomainsFails
   \/ Interrupt
   \/ SaveStats

Spec == Init /\ [][Next]_vars

(***************************************************************************)
(* merge_domains and process_domains called on their own                   *)
(***************************************************************************)

\* Candidate corpus entries: two-label domains, one in upper case, one a
\* prefix of another, one with a hyphen, and a header line read back from
\* the corpus file.
MergePool == << <<"b", ".", "c", "o", "m">>, <<"a", ".", "c", "o", "m">>, <<"Z", ".", "i", "o">>, <<"a", ".", "c", "o">>, <<"a", "-", "b", ".", "c", "o", "m">>, <<"/", "*", "*">> >>

\* Number of MergePool entries the merge inputs are drawn from.
NumMergeDomains == 3

MergeUniverse == {MergePool[i] : i \in 1..NumMergeDomains}

\* Raw lines handed to process_domains before a merge.
BatchPool == {<<"b", ".", "c", "o", "m">>, <<"0", ".", "0", ".", "0", ".", "0", " ", "a", ".", "c", "o", "m">>, <<"#", " ", "c", "o", "m", "m", "e", "n", "t">>, <<"|", "|", "c", ".", "i", "o", "^">>}

\* Longest batch handed to process_domains before a merge.
MaxBatch == 2

RECURSIVE SeqsUpTo(_, _)
\* All sequences over S of length at most n.
SeqsUpTo(S, n) ==
   IF n = 0 THEN {<<>>}
   ELSE LET shorter == SeqsUpTo(S, n - 1)
        IN  shorter \cup {Append(q, x) : q \in shorter, x \in S}

InitMerge ==
   /\ run = 0
   /\ file = NoFile
   /\ stats_file = <<>>
   /\ last_saved = <<>>
   /\ file_ops = <<>>
   /\ MainVarsCleared
   /\ load_status = "none"
   /\ source_stats = <<>>
   /\ idx = 0
   /\ final_domains_list = <<>>
   /\ merge_stats = NoStats
   /\ CallVarsCleared
   /\ existing_domains \in SUBSET MergeUniverse
   /\ \/ /\ pc = "merge_in"
         /\ raw_domains = <<>>
         /\ normalized_domains \in SUBSET MergeUniverse
         /\ priority_domains \in SUBSET MergeUniverse
      \/ /\ pc = "process_in"
         /\ raw_domains \in SeqsUpTo(BatchPool, MaxBatch) \ {<<>>}
         /\ normalized_domains = {}
         /\ priority_domains = {}

\* process_domains(raw_domains, priority_keywords) producing the batch that
\* is merged next.
ProcessCall ==
   /\ pc = "process_in"
   /\ LET r == process_domains(raw_domains, PriorityKeywords, <<>>)
      IN  /\ normalized_domains' = r.normalized
          /\ priority_domains' = r.priority
   /\ pc' = "merge_in"
   /\ UNCHANGED << run, file, stats_file, last_saved, load_status, existing_domains,
                   raw_domains, source_stats, idx, final_domains_list, merge_stats,
                   callVars,
                   file_ops, mainVars >>

\* merge_domains(existing_domains, normalized_domains, priority_domains)
MergeCall ==
   /\ pc = "merge_in"
   /\ LET r == merge_domains(existing_domains, normalized_domains, priority_domains)
      IN  /\ final_domains_list' = r.final
          /\ merge_stats' = r.stats
   /\ pc' = "merged"
   /\ UNCHANGED << run, file, stats_file, last_saved, load_status, existing_domains,
                   raw_domains, source_stats, idx, normalized_domains,
                   priority_domains, callVars,
                   file_ops, mainVars >>

\* merge_domains(set(final_domains_list), set(), set()): the merged list is
\* merged again with an empty batch.
MergeAgain ==
   /\ pc = "merged"
   /\ LET r == merge_domains(Range(final_domains_list), {}, {})
      IN  /\ final_domains_list' = r.final
          /\ merge_stats' = r.stats
   /\ existing_domains' = Range(final_domains_list)
   /\ normalized_domains' = {}
   /\ priority_domains' = {}
   /\ pc' = "remerged"
   /\ UNCHANGED << run, file, stats_file, last_saved, load_status, raw_domains,
                   source_stats, idx, callVars,
                   file_ops, mainVars >>

NextMerge == ProcessCall \/ MergeCall \/ MergeAgain

SpecMerge == InitMerge /\ [][NextMerge]_vars

(***************************************************************************)
(* is_valid_domain and normalize_domain called on their own                *)
(***************************************************************************)

\* Characters the validated strings are built from: a lower-case letter, an
\* upper-case letter, a digit, the hyphen and the dot.
ValidAlphabet == {"a", "Z", "1", "-", "."}

\* Longest string built from ValidAlphabet.
MaxStrLen == 6

\* The string of n copies of the character c.
Rep(c, n) == [i \in 1..n |-> c]

\* Strings with a label at and just over the regex's length limit.
LongLabelInputs ==
   { Rep("a", MaxLabelLen) \o <<".", "i", "o">>,
     Rep("a", MaxLabelLen + 1) \o <<".", "i", "o">>,
     <<"a", ".">> \o Rep("a", MaxLabelLen + 1) \o <<".", "i", "o">> }

ValidationInputs == SeqsUpTo(ValidAlphabet, MaxStrLen) \cup LongLabelInputs

InitValid ==
   /\ pc = "valid_in"
   /\ run = 0
   /\ file = NoFile
   /\ stats_file = <<>>
   /\ last_saved = <<>>
   /\ file_ops = <<>>
   /\ MainVarsCleared
   /\ LocalsCleared
   /\ raw_line = <<>>
   /\ source_name = <<>>
   /\ domain \in ValidationInputs
   /\ valid = FALSE
   /\ keywords = {}

\* is_valid_domain(domain)
ValidateCall ==
   /\ pc = "valid_in"
   /\ valid' = is_valid_domain(domain)
   /\ pc' = "validated"
   /\ UNCHANGED << run, file, stats_file, last_saved, locals, raw_line, source_name, domain,
                   keywords, file_ops, mainVars >>

NextValid == ValidateCall

SpecValid == InitValid /\ [][NextValid]_vars

\* Labels and top-level labels the canonical domains of the raw lines are
\* built from.
PoolLabels == {<<"a", "d", "s">>, <<"x", "-", "y">>, <<"b", "1">>}
PoolTlds == {<<"c", "o", "m">>, <<"i", "o">>}

\* Most labels, the top-level one included, of a canonical domain in a raw line.
MaxLabels == 3

RECURSIVE DomainsWithLabels(_)
\* The canonical domains of exactly n labels.
DomainsWithLabels(n) ==
   IF n = 1 THEN PoolTlds
   ELSE {l \o <<".">> \o d : l \in PoolLabels, d \in DomainsWithLabels(n - 1)}

\* Canonical domains of 2..MaxLabels labels.
CanonPool == UNION {DomainsWithLabels(n) : n \in 2..MaxLabels}

\* str.upper() and str.capitalize(), to write a domain in another letter case
Upper(s) == [i \in 1..Len(s) |-> IF IsLower(s[i]) THEN Chr(Ord(s[i]) - 32) ELSE s[i]]
Capitalize(s) == [i \in 1..Len(s) |-> IF i = 1 /\ IsLower(s[i]) THEN Chr(Ord(s[i]) - 32) ELSE s[i]]
CaseVariants(d) == {d, Upper(d), Capitalize(d)}

\* Hosts-file lines: an address token, whitespace, a domain, and possibly
\* more tokens; and lines holding the address token alone.
HostsSeparators == {<<" ">>, <<"\t">>}
HostsTrailers == {<<>>, <<" ", "#", " ", "a", "d", " ", "s", "e", "r", "v", "e", "r">>}
HostsLines ==
   {t \o sep \o d \o trail :
      t \in HostsPrefixes, sep \in HostsSeparators, d \in CanonPool, trail \in HostsTrailers}

\* URL lines: scheme://domain, with port, path and query each optional.
UrlPorts == {<<>>, <<":", "8", "0", "8", "0">>}
UrlPaths == {<<>>, <<"/", "p", "a", "t", "h">>}
UrlQueries == {<<>>, <<"?", "x", "=", "1">>}
UrlTails == {port \o path \o query : port \in UrlPorts, path \in UrlPaths, query \in UrlQueries}
UrlLines ==
   {scheme \o dd \o rest :
      scheme \in ProtocolPrefixes, dd \in UNION {CaseVariants(d) : d \in CanonPool},
      rest \in UrlTails}

\* Bare domains, AdGuard rules, wildcard entries, a comment and a blank line.
OtherLines ==
   UNION {{d, <<"|", "|">> \o d \o <<"^">>, <<"|", "|">> \o d, <<"*", ".">> \o d} : d \in CanonPool}
   \cup {<<"#", " ", "c", "o", "m", "m", "e", "n", "t">>, <<" ">>}

\* Rows of the PhishTank CSV feed: phish_id, url, further columns. The url is
\* http://domain/login with user-info and port each optional, or the domain
\* unquoted, or an empty quoted field.
CsvUserInfos == {<<>>, <<"u", "s", "e", "r", "@">>}
CsvRow(url) == <<"1", ",">> \o url \o <<",", "x">>
CsvUrlRow(userinfo, d, port) ==
   CsvRow(<<"\"">> \o <<"h", "t", "t", "p", ":", "/", "/">> \o userinfo \o d \o port \o <<"/", "l", "o", "g", "i", "n">> \o <<"\"">>)
CsvLines ==
   {CsvUrlRow(u, d, port) : u \in CsvUserInfos, d \in CanonPool, port \in UrlPorts}
   \cup {CsvRow(d) : d \in CanonPool}
   \cup {CsvRow(<<"\"", "\"">>)}

\* A domain whose first label is one of the hosts-file address tokens, in
\* hosts-file, URL, wildcard, AdGuard and bare syntax.
LocalhostDomain == <<"l", "o", "c", "a", "l", "h", "o", "s", "t", ".", "i", "o">>
LocalhostLines ==
   {t \o <<" ">> \o LocalhostDomain : t \in HostsPrefixes}
   \cup {scheme \o LocalhostDomain : scheme \in ProtocolPrefixes}
   \cup {<<"*", ".">> \o LocalhostDomain, <<"|", "|">> \o LocalhostDomain \o <<"^">>,
         LocalhostDomain}

RawLines ==
   HostsLines \cup HostsPrefixes \cup UrlLines \cup OtherLines \cup CsvLines \cup LocalhostLines

\* Source names normalize_domain is called with; <<>> is None.
SourceNames == {<<>>, Sources[1].name, Sources[2].name}

InitNorm ==
   /\ pc = "normalize_in"
   /\ run = 0
   /\ file = NoFile
   /\ stats_file = <<>>
   /\ last_saved = <<>>
   /\ file_ops = <<>>
   /\ MainVarsCleared
   /\ LocalsCleared
   /\ raw_line \in RawLines
   /\ source_name \in SourceNames
   /\ domain = <<>>
   /\ valid = FALSE
   /\ keywords = {}

\* domain = self.normalize_domain(raw_domain, source_name)
NormalizeCall ==
   /\ pc = "normalize_in"
   /\ domain' = normalize_domain(raw_line, source_name)
   /\ pc' = "normalized"
   /\ UNCHANGED << run, file, stats_file, last_saved, locals, raw_line, source_name, valid,
                   keywords, file_ops, mainVars >>

\* The test `if domain and self.is_valid_domain(domain)` of process_domains.
AcceptTest ==
   /\ pc = "normalized"
   /\ valid' = (domain # <<>> /\ is_valid_domain(domain))
   /\ pc' = "tested"
   /\ UNCHANGED << run, file, stats_file, last_saved, locals, raw_line, source_name, domain,
                   keywords, file_ops, mainVars >>

NextNorm == NormalizeCall \/ AcceptTest

SpecNorm == InitNorm /\ [][NextNorm]_vars

(***************************************************************************)
(* process_domains on batches of lines of every kind                       *)
(***************************************************************************)

\* A raw line that is not a string (None).
NotAString == <<"None">>

\* Lines of a batch: blank, not a string, comments, a URL urlparse refuses, a
\* string failing the grammar, and accepted lines in bare, hosts-file,
\* AdGuard, upper-case, URL and PhishTank CSV syntax.
RejectedLines ==
   {<<>>, NotAString, <<"#", " ", "c", "o", "m", "m", "e", "n", "t">>, <<"!", "x", ".", "i", "o">>, <<";", "x", ".", "i", "o">>, <<"h", "t", "t", "p", ":", "/", "/", "[", "a", ".", "i", "o">>, <<"-", "a", ".", "i", "o">>}
AcceptedLines ==
   {<<"a", ".", "i", "o">>, <<"0", ".", "0", ".", "0", ".", "0", " ", "B", "e", "t", ".", "i", "o">>, <<"|", "|", "c", ".", "i", "o", "^">>, <<"B", "E", "T", ".", "C", "O", "M">>,
    <<"h", "t", "t", "p", "s", ":", "/", "/", "A", ".", "i", "o", ":", "8", "0", "8", "0", "/", "p", "?", "x", "=", "1">>,
    CsvUrlRow(<<>>, <<"c", ".", "i", "o">>, <<>>)}
BatchLines == RejectedLines \cup AcceptedLines

\* Keyword lists process_domains is called with; {} is None or the empty list.
BatchKeywords == {{}, {<<"b", "e", "t">>}, {<<"B", "e", "t">>}, {<<"b", "e", "t">>, <<".", "i", "o">>}}

InitBatch ==
   /\ pc = "batch_in"
   /\ run = 0
   /\ file = NoFile
   /\ stats_file = <<>>
   /\ last_saved = <<>>
   /\ file_ops = <<>>
   /\ MainVarsCleared
   /\ load_status = "none"
   /\ existing_domains = {}
   /\ source_stats = <<>>
   /\ idx = 0
   /\ final_domains_list = <<>>
   /\ merge_stats = NoStats
   /\ raw_line = <<>>
   /\ domain = <<>>
   /\ valid = FALSE
   /\ raw_domains \in SeqsUpTo(BatchLines, MaxBatch)
   /\ source_name \in SourceNames
   /\ keywords \in BatchKeywords
   /\ normalized_domains = {}
   /\ priority_domains = {}

\* normalized_domains, priority_domains =
\*    process_domains(raw_domains, priority_keywords, source_name)
BatchCall ==
   /\ pc = "batch_in"
   /\ LET r == process_domains(raw_domains, keywords, source_name)
      IN  /\ normalized_domains' = r.normalized
          /\ priority_domains' = r.priority
   /\ pc' = "processed"
   /\ UNCHANGED << run, file, stats_file, last_saved, load_status, existing_domains,
                   raw_domains, source_stats, idx, final_domains_list, merge_stats,
                   callVars, file_ops, mainVars >>

NextBatch == BatchCall

SpecBatch == InitBatch /\ [][NextBatch]_vars

(***************************************************************************)
(* main, process_all_categories and process_category (main.py)             *)
(***************************************************************************)

\* The keys of CATEGORY_REGISTRY, in insertion order.
CategoryRegistry == <<"gambling", "suspicious", "malicious", "adult">>

get_available_categories == Range(CategoryRegistry)

\* args.category: "none" when the argument is absent, a registered name, or
\* a name that is not registered.
CategoryArgs == {"none", "casino"} \cup get_available_categories

\* Largest total_count in the statistics a build returns.
MaxTotalCount == 1

\* The position of a name in the registry.
RegistryIndex(name) == CHOOSE i \in 1..Len(CategoryRegistry) : CategoryRegistry[i] = name

\* True when the category processed now is the last one of this invocation.
LastCategory == arg_category # "none" \/ idx = Len(CategoryRegistry)

InitMain ==
   /\ pc = "main"
   /\ run = 0
   /\ file = NoFile
   /\ stats_file = <<>>
   /\ last_saved = <<>>
   /\ file_ops = <<>>
   /\ LocalsCleared
   /\ CallVarsCleared
   /\ arg_category \in CategoryArgs
   /\ all_stats = <<>>
   /\ exit_code = "running"
   /\ outcomes = <<>>

\* main is given a category name that is not registered: sys.exit(1).
UnknownCategory ==
   /\ pc = "main"
   /\ arg_category # "none"
   /\ arg_category \notin get_available_categories
   /\ exit_code' = 1
   /\ pc' = "exited"
   /\ UNCHANGED << run, file, stats_file, last_saved, file_ops, locals, callVars,
                   arg_category, all_stats, outcomes >>

\* main goes on to process_category(args.category) or to the loop of
\* process_all_categories.
StartProcessing ==
   /\ pc = "main"
   /\ arg_category = "none" \/ arg_category \in get_available_categories
   /\ idx' = IF arg_category = "none" THEN 1 ELSE RegistryIndex(arg_category)
   /\ pc' = "category"
   /\ UNCHANGED << run, file, stats_file, last_saved, file_ops, load_status,
                   existing_domains, raw_domains, source_stats, normalized_domains,
                   priority_domains, final_domains_list, merge_stats, callVars, mainVars >>

\* ProcessCategoryFails as it would be if process_category let the exception
\* through to the handler of main.
ProcessCategoryFails_propagates ==
   /\ pc = "category"
   /\ outcomes' = Append(outcomes, [category |-> CategoryRegistry[idx], returned |-> FALSE])
   /\ exit_code' = 1
   /\ pc' = "exited"
   /\ UNCHANGED << run, file, stats_file, last_saved, file_ops, locals, callVars,
                   arg_category, all_stats >>

\* process_category: build_blocklist returns its statistics, which are
\* appended to all_stats.
ProcessCategoryOk ==
   /\ pc = "category"
   /\ \E total_count \in 0..MaxTotalCount :
         all_stats' = Append(all_stats, [category    |-> CategoryRegistry[idx],
                                         total_count |-> total_count])
   /\ outcomes' = Append(outcomes, [category |-> CategoryRegistry[idx], returned |-> TRUE])
   /\ idx' = IF LastCategory THEN idx ELSE idx + 1
   /\ pc' = IF LastCategory THEN "summary" ELSE "category"
   /\ UNCHANGED << run, file, stats_file, last_saved, file_ops, load_status,
                   existing_domains, raw_domains, source_stats, normalized_domains,
                   priority_domains, final_domains_list, merge_stats, callVars,
                   arg_category, exit_code >>

\* process_category: create_category or build_blocklist raises an Exception,
\* which is caught; None is returned and nothing is appended.
ProcessCategoryFails ==
   /\ pc = "category"
   /\ outcomes' = Append(outcomes, [category |-> CategoryRegistry[idx], returned |-> FALSE])
   /\ idx' = IF LastCategory THEN idx ELSE idx + 1
   /\ pc' = IF LastCategory THEN "summary" ELSE "category"
   /\ UNCHANGED << run, file, stats_file, last_saved, file_ops, load_status,
                   existing_domains, raw_domains, source_stats, normalized_domains,
                   priority_domains, final_domains_list, merge_stats, callVars,
                   arg_category, all_stats, exit_code >>

\* The user interrupts the program while a category is processed:
\* KeyboardInterrupt passes process_category and main calls sys.exit(1).
KeyboardInterrupt ==
   /\ pc = "category"
   /\ exit_code' = 1
   /\ pc' = "interrupted"
   /\ UNCHANGED << run, file, stats_file, last_saved, file_ops, locals, callVars,
                   arg_category, all_stats, outcomes >>

\* The combined output, which changes nothing here, and the final summary:
\* sys.exit(1) when all_stats is empty, a normal return otherwise.
FinalSummary ==
   /\ pc = "summary"
   /\ exit_code' = IF all_stats = <<>> THEN 1 ELSE 0
   /\ pc' = "exited"
   /\ UNCHANGED << run, file, stats_file, last_saved, file_ops, locals, callVars,
                   arg_category, all_stats, outcomes >>

NextMain ==
   \/ UnknownCategory
   \/ StartProcessing
   \/ ProcessCategoryOk
   \/ ProcessCategoryFails
   \/ KeyboardInterrupt
   \/ FinalSummary

SpecMain == InitMain /\ [][NextMain]_vars

(***************************************************************************)
(* Properties                                                              *)
(***************************************************************************)

RECURSIVE CodepointLess(_, _)
\* a < b in plain string order, by the first characters: the order the
\* properties below are stated in.
CodepointLess(a, b) ==
   IF b = <<>> THEN FALSE
   ELSE IF a = <<>> THEN TRUE
   ELSE IF a[1] = b[1] THEN CodepointLess(Tail(a), Tail(b))
   ELSE Ord(a[1]) < Ord(b[1])

\* The domain lines of the corpus file: the lines after the header block.
DomainLines(f) ==
   IF f.exists THEN {f.lines[i] : i \in (Len(HeaderLines) + 1)..Len(f.lines)} ELSE {}

\* C1: across build_blocklist runs, whatever the fetch and corpus-read
\* outcomes, every domain line of the corpus file before a step is still a
\* domain line of the file after it: a persisted domain never disappears.
C1_PersistedDomainsNeverDisappear == [][DomainLines(file) \subseteq DomainLines(file')]_vars

\* C2: when the corpus file written by the previous run is read back, the
\* loaded set is exactly the set of the list that was saved, the header
\* adding no entry, and the existing_count of the merge equals the
\* total_count the previous run reported.
C2_SaveLoadRoundTrip ==
   load_status = "loaded" =>
      /\ pc \in {"fetch", "process", "source_stats", "merge", "save"} =>
            existing_domains = Range(last_saved)
      /\ pc = "save" => merge_stats.existing_count = stats_file.merge.total_count

\* C3: the final list of merge_domains holds exactly the existing domains
\* and the incoming ones: nothing of either is missing, nothing else is in.
C3_MergeIsUnion ==
   pc \in {"merged", "remerged"} =>
      /\ \A d \in existing_domains : \E i \in 1..Len(final_domains_list) : final_domains_list[i] = d
      /\ \A d \in normalized_domains : \E i \in 1..Len(final_domains_list) : final_domains_list[i] = d
      /\ Range(final_domains_list) = existing_domains \cup normalized_domains

C3_Witness ==
   /\ pc = "merged"
   /\ existing_domains \ normalized_domains # {}
   /\ normalized_domains \ existing_domains # {}
   /\ priority_domains # {}

\* C4: the final list of merge_domains is strictly ascending in plain string
\* (codepoint) order, so no entry occurs twice, also when a domain is in both
\* the existing and the incoming set.
C4_FinalStrictlyAscending ==
   pc \in {"merged", "remerged"} =>
      /\ \A i \in 1..(Len(final_domains_list) - 1) :
            CodepointLess(final_domains_list[i], final_domains_list[i + 1])
      /\ Cardinality(Range(final_domains_list)) = Len(final_domains_list)

C4_Witness ==
   /\ pc = "merged"
   /\ existing_domains \cap normalized_domains # {}
   /\ priority_domains \cap normalized_domains # {}
   /\ Len(final_domains_list) >= 3
   /\ \E i \in 1..Len(final_domains_list) : IsUpper(final_domains_list[i][1])

\* C5: the statistics of merge_domains are the sizes of its inputs and
\* output: existing_count = |existing|, new_count = |incoming|, total_count =
\* length of the final list, newly_added_count = |incoming \ existing| =
\* total_count - existing_count.
C5_MergeStatistics ==
   pc \in {"merged", "remerged"} =>
      /\ merge_stats.existing_count = Cardinality(existing_domains)
      /\ merge_stats.new_count = Cardinality(normalized_domains)
      /\ merge_stats.total_count = Len(final_domains_list)
      /\ merge_stats.newly_added_count = Cardinality(normalized_domains \ existing_domains)
      /\ merge_stats.newly_added_count = merge_stats.total_count - merge_stats.existing_count

C5_Witness ==
   /\ pc = "merged"
   /\ existing_domains \cap normalized_domains # {}
   /\ merge_stats.newly_added_count >= 1
   /\ merge_stats.new_count > merge_stats.newly_added_count
   /\ merge_stats.existing_count >= 2

\* C6: merging the final list of a merge again, with an empty batch and an
\* empty priority set, returns the same final list, adds nothing
\* (newly_added_count = 0) and reports total_count = existing_count.
C6_MergeIdempotent ==
   [][(pc = "merged" /\ pc' = "remerged") =>
         /\ final_domains_list' = final_domains_list
         /\ merge_stats'.newly_added_count = 0
         /\ merge_stats'.total_count = merge_stats'.existing_count
         /\ merge_stats'.total_count = merge_stats.total_count]_vars

C6_Witness ==
   /\ pc = "remerged"
   /\ Len(final_domains_list) >= 3
   /\ merge_stats.existing_count = Len(final_domains_list)

\* The priority keyword configurations compared in C7.
KeywordChoices == SUBSET {<<"a">>, <<"c", "o", "m">>, <<"b", ".">>}

\* C7: the priority input of merge_domains is inert: any priority set, and
\* None, gives the final list and statistics the call returned, with
\* priority_count 0; and the keywords given to process_domains never change
\* the normalized set.
C7_PriorityInert ==
   /\ pc = "merged" =>
         /\ \A P \in SUBSET MergeUniverse :
               merge_domains(existing_domains, normalized_domains, P)
                  = [final |-> final_domains_list, stats |-> merge_stats]
         /\ merge_domains(existing_domains, normalized_domains, <<>>)
               = [final |-> final_domains_list, stats |-> merge_stats]
         /\ merge_stats.priority_count = 0
   /\ (pc = "merge_in" /\ raw_domains # <<>>) =>
         \A K \in KeywordChoices :
            process_domains(raw_domains, K, <<>>).normalized = normalized_domains

C7_Witness ==
   /\ pc = "merged"
   /\ raw_domains # <<>>
   /\ priority_domains # {}
   /\ priority_domains # normalized_domains
   /\ Len(final_domains_list) >= 3

RECURSIVE Labels(_)
\* The dot-separated labels of a string.
Labels(str) ==
   IF "." \in Range(str)
   THEN <<SplitHead(str, ".")>> \o Labels(From(str, FindAny(str, {"."}) + 1))
   ELSE <<str>>

\* A label of the canonical domain grammar: 1 to 63 letters, digits or
\* hyphens, not starting and not ending with a hyphen.
GrammarLabel(l) ==
   /\ Len(l) >= 1
   /\ Len(l) <= 63
   /\ \A i \in 1..Len(l) : IsAlpha(l[i]) \/ IsDigit(l[i]) \/ l[i] = "-"
   /\ l[1] # "-"
   /\ l[Len(l)] # "-"

\* The canonical domain grammar: two or more labels, the last one of at
\* least two letters and letters only.
CanonicalDomain(str) ==
   LET ls == Labels(str)
   IN  /\ Len(ls) >= 2
       /\ \A i \in 1..Len(ls) : GrammarLabel(ls[i])
       /\ Len(ls[Len(ls)]) >= 2
       /\ \A i \in 1..Len(ls[Len(ls)]) : IsAlpha(ls[Len(ls)][i])

\* C8: is_valid_domain accepts a string if and only if it is in the
\* canonical domain grammar; a domain of three or more labels is accepted and
\* a label longer than 63 characters is rejected.
C8_ValidationIsGrammar == pc = "validated" => (valid <=> CanonicalDomain(domain))

\* C9: for every canonical domain d and address token t, the hosts-file line
\* "t d", with or without further tokens, is accepted with result d; a line
\* holding the token alone is rejected.
C9_HostsLinesAccepted ==
   pc = "tested" =>
      /\ \A t \in HostsPrefixes, sep \in HostsSeparators, d \in CanonPool, trail \in HostsTrailers :
            raw_line = t \o sep \o d \o trail => (valid /\ domain = d)
      /\ raw_line \in HostsPrefixes => ~valid

\* C10: for every canonical domain d in any letter case and scheme http,
\* https or ftp, the line scheme://d with optional port, path and query is
\* accepted with the lower-case form of d as result.
C10_UrlLinesAccepted ==
   pc = "tested" =>
      \A scheme \in ProtocolPrefixes, d \in CanonPool, rest \in UrlTails :
         \A dd \in CaseVariants(d) :
            raw_line = scheme \o dd \o rest => (valid /\ domain = d)

\* C11: for every canonical domain d, a PhishTank CSV row whose second field
\* is the quoted URL http://d/login, with or without user-info and port,
\* normalized with a source name containing "phishtank", is accepted with
\* result d.
C11_CsvRowsAccepted ==
   \A u \in CsvUserInfos, d \in CanonPool, port \in UrlPorts :
      (/\ pc = "tested"
       /\ raw_line = CsvUrlRow(u, d, port)
       /\ Contains(source_name, Sources[2].name))
      => (valid /\ domain = d)

\* C12: whenever a raw line is accepted with result y, normalizing and
\* validating y again is accepted with result y.
C12_RenormalizeNoOp ==
   (pc = "tested" /\ valid)
   => (/\ normalize_domain(domain, source_name) = domain
       /\ is_valid_domain(normalize_domain(domain, source_name)))

\* The lines of the batch that process_domains accepts: the normalization
\* result is non-empty and valid.
Accepted(line) ==
   LET d == normalize_domain(line, source_name)
   IN  d # <<>> /\ is_valid_domain(d)

\* The marks of something that is not yet stripped from a domain: a scheme
\* prefix, a port, a path, a query, a wildcard or filter marker, whitespace.
Leftovers == {":", "/", "?", "*", "|", "^", " ", "\t", ",", "\"", "@"}

\* C13: every element of the normalized set returned by process_domains, for
\* every batch and source name, is lowercase, matches the canonical grammar
\* and holds no scheme prefix, port, path, query, wildcard marker or leading
\* or trailing dot.
C13_NormalizedSetCanonical ==
   pc = "processed" =>
      \A d \in normalized_domains :
         /\ d = Lower(d)
         /\ CanonicalDomain(d)
         /\ Range(d) \cap Leftovers = {}
         /\ \A prefix \in ProtocolPrefixes : ~StartsWith(d, prefix)
         /\ d[1] # "." /\ d[Len(d)] # "."

\* A batch whose lines in URL, hosts-file, AdGuard, CSV and upper-case syntax
\* have all been reduced to their canonical domains.
C13_Witness ==
   /\ pc = "processed"
   /\ Cardinality(normalized_domains) = MaxBatch
   /\ \E i \in 1..Len(raw_domains) : raw_domains[i] \notin normalized_domains

\* The lines normalize_domain rejects by its first tests: not a string, empty
\* once trimmed, or starting with a comment marker.
SkippedLine(line) ==
   \/ ~IsString(line)
   \/ StripChars(line, Whitespace) = <<>>
   \/ StripChars(line, Whitespace)[1] \in CommentMarkers

\* C14: a line that is empty, not a string or a comment normalizes to the
\* empty result, every line of RejectedLines is rejected, and process_domains
\* returns exactly the accepted results of the lines of its batch, wherever
\* the rejected lines stand in it.
C14_RejectionsSilentAndLocal ==
   pc = "processed" =>
      /\ \A i \in 1..Len(raw_domains) :
            /\ SkippedLine(raw_domains[i]) => normalize_domain(raw_domains[i], source_name) = <<>>
            /\ raw_domains[i] \in RejectedLines => ~Accepted(raw_domains[i])
      /\ normalized_domains =
            {d \in {normalize_domain(raw_domains[i], source_name) : i \in 1..Len(raw_domains)} :
               d # <<>> /\ is_valid_domain(d)}

\* A batch whose first line is rejected and whose last line is accepted.
C14_Witness ==
   /\ pc = "processed"
   /\ Len(raw_domains) > 1
   /\ raw_domains[1] \in RejectedLines
   /\ Accepted(raw_domains[Len(raw_domains)])
   /\ normalized_domains # {}

\* C19: an accepted domain is in the priority set exactly when some keyword,
\* compared without regard to letter case, is a substring of it; the priority
\* set is a subset of the normalized set.
C19_PriorityCaseInsensitive ==
   pc = "processed" =>
      /\ priority_domains \subseteq normalized_domains
      /\ \A d \in normalized_domains :
            d \in priority_domains <=> \E k \in keywords : Contains(Lower(d), Lower(k))

RECURSIVE FetchedData(_)
\* The raw data fetch_multiple_sources can hold after the first k sources,
\* given their recorded statistics: the lines of each successful source, in
\* configured order, and nothing for a failed one.
FetchedData(k) ==
   IF k = 0 THEN {<<>>}
   ELSE {before \o lines :
            before \in FetchedData(k - 1),
            lines \in (IF source_stats[k].status = "success"
                       THEN {l \in Payloads(k) : Len(l) = source_stats[k].total_raw}
                       ELSE {<<>>})}

\* C15: the loop of fetch_multiple_sources leaves only when every source has
\* been attempted; every attempted source is recorded, a failed one with
\* status error and total_raw 0, a successful one with status success and its
\* line count; the raw data are the lines of the successful sources in
\* configured order; and the corpus persisted by a run with failed sources is
\* the merge of the existing corpus and the batch.
C15_FetchFailureIsolated ==
   /\ pc = "fetch" => Len(source_stats) = idx - 1
   /\ pc \in {"process", "source_stats", "merge", "save", "save_stats"}
         => Len(source_stats) = Len(Sources)
   /\ pc \in {"fetch", "process", "source_stats", "merge", "save", "save_stats"} =>
         /\ \A i \in 1..Len(source_stats) :
               /\ source_stats[i].url = Sources[i].url
               /\ source_stats[i].status \in {"success", "error"}
               /\ source_stats[i].status = "error" => source_stats[i].total_raw = 0
               /\ source_stats[i].status = "success"
                     => \E l \in Payloads(i) : source_stats[i].total_raw = Len(l)
         /\ raw_domains \in FetchedData(Len(source_stats))
   /\ pc = "save_stats" =>
         /\ file = save_domains(final_domains_list)
         /\ Range(final_domains_list) =
               existing_domains \cup process_domains(raw_domains, PriorityKeywords, <<>>).normalized

\* A run whose first source succeeded and whose second source failed has
\* persisted the lines of the first.
C15_Witness ==
   /\ pc = "save_stats"
   /\ source_stats[1].status = "success"
   /\ source_stats[2].status = "error"
   /\ raw_domains # <<>>
   /\ normalized_domains # {}
   /\ file = save_domains(final_domains_list)

C18_CorpusUsesSourceContext ==
   (pc = "save_stats" /\ source_stats[2].status = "success") =>
      \E lines \in Payloads(2) :
         process_domains(lines, PriorityKeywords, Sources[2].name).normalized
            \subseteq DomainLines(file)

\* C20: within one run the corpus file changes only in the save step, which
\* comes after the load, after every source was fetched and after the batch
\* was processed and merged, and writes the merged list; the file is
\* accessed by one load and then at most one write, exactly one in a run that
\* completes; a run that is abandoned leaves the file as it was.
C20_ReadBeforeSingleWrite ==
   [][/\ file' # file =>
            /\ pc = "save" /\ pc' = "save_stats"
            /\ file_ops = <<"load">>
            /\ Len(source_stats) = Len(Sources)
            /\ normalized_domains = process_domains(raw_domains, PriorityKeywords, <<>>).normalized
            /\ final_domains_list =
                  merge_domains(existing_domains, normalized_domains, priority_domains).final
            /\ file' = save_domains(final_domains_list)
      /\ file_ops' \in {<<>>, <<"load">>, <<"load", "write">>}
      /\ (pc' = "idle" /\ pc = "save_stats") => file_ops' = <<"load", "write">>
      /\ (pc' = "idle" /\ pc # "save_stats") => file' = file
     ]_vars

\* A second run was abandoned after its load and left the file of the first
\* run in place.
C20_Witness ==
   /\ pc = "idle"
   /\ run > 1
   /\ file_ops = <<"load">>
   /\ file.exists
   /\ file = save_domains(last_saved)

\* The categories of the calls of process_category that returned statistics.
Completed == SelectSeq(outcomes, LAMBDA o : o.returned)

\* C17: when all categories are processed, every category of the registry is
\* attempted in registry order whatever the earlier ones did; all_stats holds
\* the statistics of exactly the categories that completed, in that order;
\* and a program that was not interrupted exits with failure exactly when no
\* category completed, which includes an unknown category name, rejected
\* before any category is processed.
C17_CategoryIsolation ==
   /\ Len(all_stats) = Len(Completed)
   /\ \A i \in 1..Len(all_stats) : all_stats[i].category = Completed[i].category
   /\ \A i \in 1..Len(outcomes) :
         outcomes[i].category =
            IF arg_category = "none" THEN CategoryRegistry[i] ELSE arg_category
   /\ (pc \in {"summary", "exited"} /\ arg_category = "none")
         => Len(outcomes) = Len(CategoryRegistry)
   /\ pc = "exited" =>
         /\ exit_code \in {0, 1}
         /\ exit_code = 1 <=> Completed = <<>>
         /\ arg_category \notin get_available_categories \cup {"none"}
               => (exit_code = 1 /\ outcomes = <<>>)

\* All categories were processed, the first one failed, a later one
\* completed, and the program ended successfully.
C17_Witness ==
   /\ pc = "exited"
   /\ arg_category = "none"
   /\ ~outcomes[1].returned
   /\ Len(all_stats) > 1
   /\ exit_code = 0
====
